---- MODULE Spec2Model ----
(***************************************************************************)
(* Model of the Cloud Build command wrapper (src/main.go): argument        *)
(* parsing, deadline resolution, and the supervision of one child process  *)
(* by runCommand (waiter goroutine, three-way select, final wait).         *)
(* Time is counted in milliseconds.                                        *)
(***************************************************************************)
EXTENDS Integers, Sequences, FiniteSets, TLC

\* ---------------------------------------------------------------- bounds
MaxRecv == 2          \* signals the supervisor's process receives in a run
MaxNowSteps == 6      \* time.Now() is sampled on a 500ms grid 0..MaxNowSteps*500

\* ---------------------------------------------------------------- inputs
TimeGrid == {k * 500 : k \in 0..MaxNowSteps}
StartSeconds == {0, 1}               \* resp.StartTime.Seconds
TimeoutSeconds == {1, 2}             \* resp.Timeout.Seconds
ChildCodes == {0, 3, 255}            \* exit codes of a normally exiting child
RecvSignals == {2, 17, 30}           \* SIGINT, SIGCHLD, SIGPWR
ExitcodeArgs == {0, 7}               \* -e/--timeout-exitcode N; 0: flag absent
BadSignalNames == {"SIGBOGUS", "sigterm", "TERM"}
DurationStrings == {"0", "500ms", "1s", "1.5s", "2s", "-1s", "", "5", "abc"}

\* ------------------------------------------------------- signal catalog
SIGCHLD == 17
SIGKILL == 9

validSignals ==
  [n \in {"SIGABRT", "SIGALRM", "SIGBUS", "SIGCHLD", "SIGCONT", "SIGFPE",
          "SIGHUP", "SIGILL", "SIGINT", "SIGIO", "SIGIOT", "SIGKILL",
          "SIGPIPE", "SIGPROF", "SIGQUIT", "SIGSEGV", "SIGSTOP", "SIGSYS",
          "SIGTERM", "SIGTRAP", "SIGTSTP", "SIGTTIN", "SIGTTOU", "SIGURG",
          "SIGUSR1", "SIGUSR2", "SIGVTALRM", "SIGWINCH", "SIGXCPU",
          "SIGXFSZ"} |->
     CASE n = "SIGABRT" -> 6    [] n = "SIGALRM" -> 14  [] n = "SIGBUS" -> 7
       [] n = "SIGCHLD" -> 17   [] n = "SIGCONT" -> 18  [] n = "SIGFPE" -> 8
       [] n = "SIGHUP" -> 1     [] n = "SIGILL" -> 4    [] n = "SIGINT" -> 2
       [] n = "SIGIO" -> 29     [] n = "SIGIOT" -> 6    [] n = "SIGKILL" -> 9
       [] n = "SIGPIPE" -> 13   [] n = "SIGPROF" -> 27  [] n = "SIGQUIT" -> 3
       [] n = "SIGSEGV" -> 11   [] n = "SIGSTOP" -> 19  [] n = "SIGSYS" -> 31
       [] n = "SIGTERM" -> 15   [] n = "SIGTRAP" -> 5   [] n = "SIGTSTP" -> 20
       [] n = "SIGTTIN" -> 21   [] n = "SIGTTOU" -> 22  [] n = "SIGURG" -> 23
       [] n = "SIGUSR1" -> 10   [] n = "SIGUSR2" -> 12  [] n = "SIGVTALRM" -> 26
       [] n = "SIGWINCH" -> 28  [] n = "SIGXCPU" -> 24  [] n = "SIGXFSZ" -> 25]

\* validation that compares names without regard to case
validSignalName_M(name) == name \in DOMAIN validSignals \cup {"sigterm"}

\* the lookup of parseArgs: _, ok := validSignals[timeoutSigStr]
validSignalName(name) == name \in DOMAIN validSignals

SignalNames == DOMAIN validSignals \cup BadSignalNames

\* the --signal and --before-timeout values of the supervised runs
RunSignalNames == {"SIGTERM", "SIGINT", "SIGIOT", "SIGBOGUS"}
RunDurationStrings == {"1s", "1.5s", "-1s", "abc"}

\* ------------------------------------------------------------ durations
\* time.ParseDuration on the strings of DurationStrings, in milliseconds:
\* a bare "0" is accepted, a number without a unit, a word and the empty
\* string are errors.
ParseDuration(s) ==
  CASE s = "0"     -> [ok |-> TRUE, dur |-> 0]
    [] s = "500ms" -> [ok |-> TRUE, dur |-> 500]
    [] s = "1s"    -> [ok |-> TRUE, dur |-> 1000]
    [] s = "1.5s"  -> [ok |-> TRUE, dur |-> 1500]
    [] s = "2s"    -> [ok |-> TRUE, dur |-> 2000]
    [] s = "-1s"   -> [ok |-> TRUE, dur |-> 0 - 1000]
    [] OTHER       -> [ok |-> FALSE, dur |-> 0]

\* int64(timeoutDur.Seconds()): conversion to whole seconds, toward zero
TruncSeconds(d) == IF d >= 0 THEN d \div 1000 ELSE 0 - ((0 - d) \div 1000)

\* resp.StartTime.Seconds + resp.Timeout.Seconds
buildTimeoutTime(startSec, toSec) == startSec + toSec

\* time.Unix(buildTimeoutTime-int64(timeoutDur.Seconds()), 0), in ms
signalTimeOf(btt, dur) == (btt - TruncSeconds(dur)) * 1000

\* signalTime.Before(time.Now())
Before(t, u) == t < u

\* ------------------------------------------------------------ exit codes
\* the status the operating system keeps of os.Exit(code)
OsStatus(code) == code % 256

NilErr == [kind |-> "nil", code |-> 0]
SpawnErr == [kind |-> "error", code |-> 0]
SignalErr == [kind |-> "error", code |-> 0]

\* the error cmd.Run returns for a terminated child: nil for exit code 0,
\* otherwise an *exec.ExitError whose ExitCode() is the code, or -1 for a
\* child killed by a signal
RunError(st) ==
  IF st.kind = "exit"
  THEN IF st.val = 0 THEN NilErr ELSE [kind |-> "ExitError", code |-> st.val]
  ELSE [kind |-> "ExitError", code |-> 0 - 1]

\* every error of runCommand treated as fatal (exit code 1)
MainExitCode_M(err) == IF err.kind = "nil" THEN 0 ELSE 1

\* main, lines 210-220: the code the process exits with for runCommand's
\* return value
MainExitCode(err) ==
  IF err.kind = "nil" THEN 0
  ELSE IF err.kind = "ExitError" THEN err.code
  ELSE 1

NoStatus == [kind |-> "none", val |-> 0]
ChildStatuses(dl) ==
  {[kind |-> "exit", val |-> c] : c \in ChildCodes}
    \cup {[kind |-> "signaled", val |-> s] : s \in dl \cup {SIGKILL}}

VARIABLES
  pc,              \* position of the main flow
  help, nPosArgs, timeoutExitcode, timeoutSigStr, timeoutStr,   \* os.Args
  parsed,          \* parseArgs returned without error
  timeoutDur,      \* global timeoutDur
  termTime,        \* buildTimeoutTime of getBuildSignalTime, in ms
  checkNow,        \* the time.Now() of the past-deadline check (line 134)
  signalTime,      \* signalTime, in ms
  now,             \* the latest time.Now() sample
  adjustedTimeout, \* adjustedTimeout / runCommand's timeout parameter
  failure,         \* why the pre-flight failed ("" when it did not)
  notifyInstalled, \* signal.Notify(caughtSigsChan) was called
  received,        \* signals the supervisor's process received, in order
  sigQueue,        \* signals os/signal has yet to offer to caughtSigsChan
  wpc,             \* position of the waiter goroutine
  cmdProcess,      \* cmd.Process is set
  processDone,     \* the process was waited on (Process.Signal refuses)
  child,           \* "none", "running", "zombie", "reaped"
  childStatus,     \* the termination status of the child
  delivered,       \* signals delivered to the child
  runResult,       \* value cmd.Run returned
  done,            \* channel done (capacity 1)
  timerArmed, timerFired,   \* time.After(timeout)
  atDeadline,      \* state of the child when the duration elapsed
  path,            \* the case the select took
  sent,            \* Process.Signal calls of the main flow, in order
  doneReads,       \* number of receives from done by the main flow
  ret,             \* the value runCommand returned
  exitCode         \* argument of os.Exit (0 when main returns)

vars == <<pc, help, nPosArgs, timeoutExitcode, timeoutSigStr, timeoutStr,
          parsed, timeoutDur, termTime, checkNow, signalTime, now,
          adjustedTimeout, failure, notifyInstalled, received, sigQueue, wpc,
          cmdProcess, processDone, child, childStatus, delivered, runResult,
          done, timerArmed, timerFired, atDeadline, path, sent, doneReads,
          ret, exitCode>>

argVars == <<help, nPosArgs, timeoutExitcode, timeoutSigStr, timeoutStr>>
timeVars == <<timeoutDur, termTime, checkNow, signalTime, now, adjustedTimeout>>
sigVars == <<notifyInstalled, received, sigQueue>>
childVars == <<child, childStatus, delivered>>
waiterVars == <<wpc, cmdProcess, processDone, runResult>>
mainVars == <<pc, parsed, failure, path, sent, doneReads, ret, exitCode>>
timerVars == <<timerArmed, timerFired, atDeadline>>

InitWith(names, durations) ==
  /\ pc = "parseArgs"
  /\ help \in BOOLEAN
  /\ nPosArgs \in {2, 3}
  /\ timeoutExitcode \in ExitcodeArgs
  /\ timeoutSigStr \in names
  /\ timeoutStr \in durations
  /\ parsed = FALSE
  /\ timeoutDur = 0 /\ termTime = 0 /\ checkNow = 0 /\ signalTime = 0
  /\ now = 0 /\ adjustedTimeout = 0
  /\ failure = ""
  /\ notifyInstalled = FALSE /\ received = <<>> /\ sigQueue = <<>>
  /\ wpc = "idle" /\ cmdProcess = FALSE /\ processDone = FALSE
  /\ child = "none" /\ childStatus = NoStatus /\ delivered = {}
  /\ runResult = NilErr /\ done = <<>>
  /\ timerArmed = FALSE /\ timerFired = FALSE /\ atDeadline = "unfired"
  /\ path = "none" /\ sent = <<>> /\ doneReads = 0
  /\ ret = NilErr /\ exitCode = 0

Init == InitWith(RunSignalNames, RunDurationStrings)

\* every signal name and every duration string, for the steps of main that
\* come before runCommand
InitPreflight == InitWith(SignalNames, DurationStrings)

\* a pre-flight error reported but the process left with code 0
Exit_M(code, why) ==
  /\ pc' = "exited" /\ exitCode' = 0 /\ failure' = why
  /\ UNCHANGED <<path, sent, doneReads, ret>>

\* os.Exit(code) before the child was ever started
Exit(code, why) ==
  /\ pc' = "exited" /\ exitCode' = code /\ failure' = why
  /\ UNCHANGED <<path, sent, doneReads, ret>>

\* ------------------------------------------------------------- parseArgs
\* lines 145-181, with main's handling of its error (lines 187-195).
\* pflag.Parse() (line 155) exits with 2 on a flag that was never defined;
\* parseArgs defines --signal, --before-timeout and --help only.
ParseArgs ==
  /\ pc = "parseArgs"
  /\ UNCHANGED <<argVars, sigVars, childVars, waiterVars, done, timerVars,
                 termTime, checkNow, signalTime, now,
                 adjustedTimeout>>
  /\ IF timeoutExitcode # 0
     THEN Exit(2, "flag") /\ UNCHANGED <<parsed, timeoutDur>>
     ELSE IF help
     THEN Exit(0, "help") /\ UNCHANGED <<parsed, timeoutDur>>
     ELSE IF nPosArgs < 3
     THEN Exit(1, "args") /\ UNCHANGED <<parsed, timeoutDur>>
     ELSE IF ~validSignalName(timeoutSigStr)
     THEN Exit(1, "signal") /\ UNCHANGED <<parsed, timeoutDur>>
     ELSE IF ~ParseDuration(timeoutStr).ok
     THEN Exit(1, "duration") /\ UNCHANGED <<parsed, timeoutDur>>
     ELSE /\ timeoutDur' = ParseDuration(timeoutStr).dur
          /\ parsed' = TRUE
          /\ pc' = "getBuildSignalTime"
          /\ UNCHANGED <<failure, path, sent, doneReads, ret, exitCode>>

\* ---------------------------------------------------- getBuildSignalTime
\* lines 113-143, with main's ErrorLogger.Fatalln on its error (198-201)
GetBuildFails ==
  /\ pc = "getBuildSignalTime"
  /\ Exit(1, "fetch")
  /\ UNCHANGED <<argVars, parsed, timeVars, sigVars, childVars, waiterVars,
                 done, timerVars>>

GetBuildSignalTime ==
  /\ pc = "getBuildSignalTime"
  /\ \E startSec \in StartSeconds, toSec \in TimeoutSeconds, t \in TimeGrid :
       /\ t >= now
       /\ termTime' = buildTimeoutTime(startSec, toSec) * 1000
       /\ signalTime' = signalTimeOf(buildTimeoutTime(startSec, toSec), timeoutDur)
       /\ checkNow' = t
       /\ now' = t
       /\ IF Before(signalTime', t)
          THEN Exit(1, "past")
          ELSE /\ pc' = "adjust"
               /\ UNCHANGED <<failure, path, sent, doneReads, ret, exitCode>>
  /\ UNCHANGED <<argVars, parsed, timeoutDur, adjustedTimeout, sigVars,
                 childVars, waiterVars, done, timerVars>>

\* main, line 202: adjustedTimeout := signalTime.Sub(time.Now())
Adjust ==
  /\ pc = "adjust"
  /\ \E t \in TimeGrid :
       /\ t >= now
       /\ now' = t
       /\ adjustedTimeout' = signalTime - t
  /\ pc' = "notify"
  /\ UNCHANGED <<argVars, parsed, timeoutDur, termTime, checkNow, signalTime,
                 failure, path, sent, doneReads, ret, exitCode, sigVars,
                 childVars, waiterVars, done, timerVars>>

\* main, lines 204-208: signal.Notify for every signal, then
\* signal.Reset(SIGCHLD)
Notify ==
  /\ pc = "notify"
  /\ notifyInstalled' = TRUE
  /\ pc' = "runCommand"
  /\ UNCHANGED <<argVars, parsed, timeVars, failure, path, sent, doneReads,
                 ret, exitCode, received, sigQueue, childVars, waiterVars,
                 done, timerVars>>

\* ------------------------------------------------------------ runCommand
\* lines 84-97: build cmd, make(chan error, 1), start the waiter goroutine
\* and enter the select, which arms time.After(timeout).  The time values
\* are read by no later step and leave the state here.
RunCommandStart ==
  /\ pc = "runCommand"
  /\ wpc' = "start"
  /\ timerArmed' = TRUE
  /\ UNCHANGED <<timerFired, atDeadline>>
  /\ pc' = "select"
  /\ timeoutDur' = 0 /\ termTime' = 0 /\ checkNow' = 0 /\ signalTime' = 0
  /\ now' = 0 /\ adjustedTimeout' = 0
  /\ UNCHANGED <<argVars, parsed, failure, path, sent, doneReads, ret,
                 exitCode, sigVars, childVars, cmdProcess, processDone,
                 runResult, done>>

\* the waiter goroutine, lines 90-93: cmd.Run() is cmd.Start() followed by
\* cmd.Wait().  It runs no further once a panic has ended the process.
WaiterStartOk ==
  /\ wpc = "start"
  /\ pc # "panicked"
  /\ child' = "running"
  /\ wpc' = "assign"
  /\ UNCHANGED <<argVars, timeVars, sigVars, mainVars, childStatus, delivered,
                 cmdProcess, processDone, runResult, done, timerVars>>

WaiterStartFails ==
  /\ wpc = "start"
  /\ pc # "panicked"
  /\ runResult' = SpawnErr
  /\ wpc' = "send"
  /\ UNCHANGED <<argVars, timeVars, sigVars, mainVars, childVars, cmdProcess,
                 processDone, done, timerVars>>

\* cmd.Start stores the started process in cmd.Process
WaiterAssign ==
  /\ wpc = "assign"
  /\ pc # "panicked"
  /\ cmdProcess' = TRUE
  /\ wpc' = "wait"
  /\ UNCHANGED <<argVars, timeVars, sigVars, mainVars, childVars, processDone,
                 runResult, done, timerVars>>

\* cmd.Wait returns once the child has terminated, and reaps it
WaiterWait ==
  /\ wpc = "wait"
  /\ pc # "panicked"
  /\ child = "zombie"
  /\ child' = "reaped"
  /\ processDone' = TRUE
  /\ runResult' = RunError(childStatus)
  /\ wpc' = "send"
  /\ UNCHANGED <<argVars, timeVars, sigVars, mainVars, childStatus, delivered,
                 cmdProcess, done, timerVars>>

\* done <- cmd.Run()
WaiterSend ==
  /\ wpc = "send"
  /\ pc # "panicked"
  /\ Len(done) < 1
  /\ done' = Append(done, runResult)
  /\ wpc' = "finished"
  /\ UNCHANGED <<argVars, timeVars, sigVars, mainVars, childVars, cmdProcess,
                 processDone, runResult, timerVars>>

\* the child terminates: with an exit code of its own, or killed by a
\* signal it was sent (or by SIGKILL from elsewhere)
ChildTerminates ==
  /\ child = "running"
  /\ \E st \in ChildStatuses(delivered) : childStatus' = st
  /\ child' = "zombie"
  /\ UNCHANGED <<argVars, timeVars, sigVars, mainVars, waiterVars, delivered,
                 done, timerVars>>

\* the duration of time.After(timeout) elapses and the timer's channel
\* gets its value
TimerFires ==
  /\ timerArmed /\ ~timerFired
  /\ pc \notin {"exited", "panicked"}
  /\ timerFired' = TRUE
  /\ atDeadline' = child
  /\ UNCHANGED <<argVars, timeVars, sigVars, mainVars, childVars, waiterVars,
                 done, timerArmed>>

\* signals outside the catalog filtered out before they are relayed
ReceiveSignal_M ==
  /\ notifyInstalled
  /\ pc \notin {"exited", "panicked"}
  /\ Len(received) < MaxRecv
  /\ \E s \in RecvSignals :
       /\ received' = Append(received, [sig |-> s, running |-> child = "running"])
       /\ sigQueue' = IF s = SIGCHLD \/ s \notin {validSignals[n] : n \in DOMAIN validSignals}
                      THEN sigQueue ELSE Append(sigQueue, s)
  /\ UNCHANGED <<argVars, timeVars, notifyInstalled, mainVars, childVars,
                 waiterVars, done, timerVars>>

\* the supervisor's process receives a signal; SIGCHLD was reset to its
\* default action and is not relayed to caughtSigsChan
ReceiveSignal ==
  /\ notifyInstalled
  /\ pc \notin {"exited", "panicked"}
  /\ Len(received) < MaxRecv
  /\ \E s \in RecvSignals :
       /\ received' = Append(received, [sig |-> s, running |-> child = "running"])
       /\ sigQueue' = IF s = SIGCHLD THEN sigQueue ELSE Append(sigQueue, s)
  /\ UNCHANGED <<argVars, timeVars, notifyInstalled, mainVars, childVars,
                 waiterVars, done, timerVars>>

\* os/signal offers the signal to the unbuffered caughtSigsChan without
\* blocking: it is lost unless the main flow is parked in the select
DropSignal ==
  /\ sigQueue # <<>>
  /\ pc # "select" \/ done # <<>> \/ timerFired
  /\ sigQueue' = Tail(sigQueue)
  /\ UNCHANGED <<argVars, timeVars, notifyInstalled, received, mainVars,
                 childVars, waiterVars, done, timerVars>>

\* the signal branches returning right after the send, without the final
\* receive from done
ProcessSignal_M(sig, by) ==
  IF ~cmdProcess
  THEN /\ pc' = "panicked"
       /\ UNCHANGED <<sent, ret, delivered>>
  ELSE /\ pc' = "returned"
       /\ sent' = Append(sent, [sig |-> sig, by |-> by, ok |-> ~processDone])
       /\ ret' = IF processDone THEN SignalErr ELSE NilErr
       /\ delivered' = IF child = "running" /\ ~processDone
                       THEN delivered \cup {sig} ELSE delivered

\* cmd.Process.Signal(sig), lines 102 and 105, and the step to line 108:
\* a nil cmd.Process panics, a process already waited on gives
\* os.ErrProcessDone, otherwise the signal is delivered
ProcessSignal(sig, by) ==
  IF ~cmdProcess
  THEN /\ pc' = "panicked"
       /\ UNCHANGED <<sent, ret, delivered>>
  ELSE IF processDone
  THEN /\ pc' = "waitDone"
       /\ sent' = Append(sent, [sig |-> sig, by |-> by, ok |-> FALSE])
       /\ ret' = SignalErr
       /\ UNCHANGED delivered
  ELSE /\ pc' = "waitDone"
       /\ sent' = Append(sent, [sig |-> sig, by |-> by, ok |-> TRUE])
       /\ ret' = NilErr
       /\ delivered' = IF child = "running" THEN delivered \cup {sig}
                       ELSE delivered

\* select, lines 98-99: case err := <-done: return err
SelectDone ==
  /\ pc = "select"
  /\ done # <<>>
  /\ ret' = Head(done)
  /\ done' = Tail(done)
  /\ doneReads' = doneReads + 1
  /\ path' = "done"
  /\ pc' = "returned"
  /\ UNCHANGED <<argVars, timeVars, sigVars, childVars, waiterVars, parsed,
                 failure, sent, exitCode, timerVars>>

\* select, lines 100-102: case recdSig := <-sigChan.  The send of os/signal
\* succeeds only while the main flow is parked in the select, that is
\* while no other case has become ready
SelectSignal ==
  /\ pc = "select"
  /\ sigQueue # <<>>
  /\ done = <<>> /\ ~timerFired
  /\ sigQueue' = Tail(sigQueue)
  /\ path' = "signal"
  /\ ProcessSignal(Head(sigQueue), "forward")
  /\ UNCHANGED <<argVars, timeVars, notifyInstalled, received, waiterVars,
                 child, childStatus, parsed, failure, doneReads, exitCode,
                 done, timerVars>>

\* the timer branch receiving from done before it sends the signal
SelectTimer_M ==
  /\ pc = "select"
  /\ timerFired
  /\ done # <<>>
  /\ path' = "timer"
  /\ done' = Tail(done)
  /\ doneReads' = doneReads + 1
  /\ IF ~cmdProcess
     THEN pc' = "panicked" /\ UNCHANGED <<sent, ret>>
     ELSE /\ pc' = "returned"
          /\ sent' = Append(sent, [sig |-> validSignals[timeoutSigStr],
                                   by |-> "timer", ok |-> ~processDone])
          /\ ret' = IF processDone THEN SignalErr ELSE NilErr
  /\ UNCHANGED <<argVars, timeVars, sigVars, waiterVars, childVars, parsed,
                 failure, exitCode, timerVars>>

\* select, lines 103-105: case <-time.After(timeout)
SelectTimer ==
  /\ pc = "select"
  /\ timerFired
  /\ path' = "timer"
  /\ ProcessSignal(validSignals[timeoutSigStr], "timer")
  /\ UNCHANGED <<argVars, timeVars, sigVars, waiterVars, child, childStatus,
                 parsed, failure, doneReads, exitCode, done, timerVars>>

\* the final wait returning once the completion value is there, without
\* taking it out of the channel
WaitDone_N ==
  /\ pc = "waitDone"
  /\ done # <<>>
  /\ pc' = "returned"
  /\ UNCHANGED <<argVars, timeVars, sigVars, childVars, waiterVars, parsed,
                 failure, path, sent, ret, exitCode, timerVars, done,
                 doneReads>>

\* the final wait also watching the timer: a second source is consumed
\* and a second signal sent after a forwarded one
WaitDone_M ==
  \/ /\ pc = "waitDone"
     /\ done # <<>>
     /\ done' = Tail(done)
     /\ doneReads' = doneReads + 1
     /\ pc' = "returned"
     /\ UNCHANGED <<argVars, timeVars, sigVars, childVars, waiterVars, parsed,
                    failure, path, sent, ret, exitCode, timerVars>>
  \/ /\ pc = "waitDone"
     /\ timerFired /\ path = "signal"
     /\ path' = "timer"
     /\ ProcessSignal(validSignals[timeoutSigStr], "timer")
     /\ UNCHANGED <<argVars, timeVars, sigVars, waiterVars, child,
                    childStatus, parsed, failure, doneReads, exitCode, done,
                    timerVars>>

\* lines 108-110: <-done; return err
WaitDone ==
  /\ pc = "waitDone"
  /\ done # <<>>
  /\ done' = Tail(done)
  /\ doneReads' = doneReads + 1
  /\ pc' = "returned"
  /\ UNCHANGED <<argVars, timeVars, sigVars, childVars, waiterVars, parsed,
                 failure, path, sent, ret, exitCode, timerVars>>

\* main, lines 210-220
MainExit ==
  /\ pc = "returned"
  /\ exitCode' = MainExitCode(ret)
  /\ pc' = "exited"
  /\ UNCHANGED <<argVars, timeVars, sigVars, childVars, waiterVars, parsed,
                 failure, path, sent, doneReads, ret, done, timerVars>>

Next ==
  \/ ParseArgs
  \/ GetBuildFails
  \/ GetBuildSignalTime
  \/ Adjust
  \/ Notify
  \/ RunCommandStart
  \/ WaiterStartOk
  \/ WaiterStartFails
  \/ WaiterAssign
  \/ WaiterWait
  \/ WaiterSend
  \/ ChildTerminates
  \/ TimerFires
  \/ ReceiveSignal
  \/ DropSignal
  \/ SelectDone
  \/ SelectSignal
  \/ SelectTimer
  \/ WaitDone
  \/ MainExit

Spec == Init /\ [][Next]_vars

NextPreflight ==
  \/ ParseArgs
  \/ GetBuildFails
  \/ GetBuildSignalTime
  \/ Adjust
  \/ Notify

SpecPreflight == InitPreflight /\ [][NextPreflight]_vars

\* Fair scheduling: the Go scheduler runs every runnable goroutine, so a
\* step of the main flow, of the waiter goroutine or of the os/signal relay
\* that stays enabled is eventually taken.  Nothing obliges the child to
\* terminate, the timer to expire or a signal to arrive.
MainStep ==
  \/ ParseArgs
  \/ GetBuildFails
  \/ GetBuildSignalTime
  \/ Adjust
  \/ Notify
  \/ RunCommandStart
  \/ SelectDone
  \/ SelectTimer
  \/ WaitDone
  \/ MainExit

WaiterStep ==
  \/ WaiterStartOk
  \/ WaiterStartFails
  \/ WaiterAssign
  \/ WaiterWait
  \/ WaiterSend

RelayStep == SelectSignal \/ DropSignal

\* one valid command line, for the runs checked under fairness
InitLive == InitWith({"SIGTERM"}, {"1s"})

SpecLive ==
  /\ InitLive /\ [][Next]_vars
  /\ WF_vars(MainStep) /\ WF_vars(WaiterStep) /\ WF_vars(RelayStep)

TypeOK ==
  /\ pc \in {"parseArgs", "getBuildSignalTime", "adjust", "notify",
             "runCommand", "select", "waitDone", "returned", "exited",
             "panicked"}
  /\ wpc \in {"idle", "start", "assign", "wait", "send", "finished"}
  /\ child \in {"none", "running", "zombie", "reaped"}
  /\ Len(done) <= 1
  /\ Len(sent) <= 1

\* ======================================================================
\* Properties
\* ======================================================================

Ended == pc \in {"returned", "exited"}
SentBy(by) == {i \in DOMAIN sent : sent[i].by = by}

\* C1: in a run in which the child was started, runCommand returns only
\* after the completion value was received from done, whichever case the
\* select took: it never returns while the child is still running
C1_ReturnsAfterChildDone ==
  (Ended /\ child # "none") =>
     /\ doneReads >= 1
     /\ wpc = "finished"
     /\ child = "reaped"

\* a run that took the timer case, sent the signal and has returned
C1_Witness ==
  /\ pc = "returned" /\ path = "timer" /\ sent # <<>>
  /\ child = "reaped" /\ doneReads = 1

\* C2: the exit status of the supervisor is the exit code of the child on
\* every path, also when a signal was sent (and delivered) before the
\* child exited, and runCommand returns the error of the child's run
C2_ReportsChildStatus ==
  (pc = "exited" /\ path # "none" /\ childStatus.kind = "exit"
     /\ \A i \in DOMAIN sent : sent[i].ok) =>
     /\ ret = RunError(childStatus)
     /\ OsStatus(exitCode) = childStatus.val

\* C3: when the select takes the done case, no signal is ever sent to the
\* child, and the supervisor exits with the exit code of a child that
\* exited normally (0 for 0, n for n)
C3_DoneFirst ==
  path = "done" =>
     /\ sent = <<>>
     /\ delivered = {}
     /\ pc # "waitDone"
     /\ (pc = "exited" /\ childStatus.kind = "exit")
           => OsStatus(exitCode) = childStatus.val

\* the child exited with 3, done was taken first, the supervisor exited 3
C3_Witness ==
  /\ pc = "exited" /\ path = "done"
  /\ childStatus = [kind |-> "exit", val |-> 3]
  /\ exitCode = 3 /\ sent = <<>>

\* C4: when the deadline duration elapsed while the child was running, the
\* configured signal is sent to the child, whatever was forwarded before:
\* once the main flow is past the select with the child still running, the
\* send has happened
C4_DeadlineSignalSent ==
  (atDeadline = "running" /\ child = "running" /\ pc = "waitDone") =>
     \E i \in SentBy("timer") :
        sent[i].sig = validSignals[timeoutSigStr] /\ sent[i].ok

\* C5: every signal other than SIGCHLD that the supervisor received while
\* the child was running has been delivered to the child as the same
\* signal, once nothing is left to relay and the main flow is past the
\* select with the child still running
C5_EverySignalForwarded ==
  (pc = "waitDone" /\ child = "running" /\ sigQueue = <<>>) =>
     \A i \in DOMAIN received :
        (received[i].running /\ received[i].sig # SIGCHLD) =>
           \E j \in SentBy("forward") :
              sent[j].sig = received[i].sig /\ sent[j].ok

\* C6: a failed delivery is not fatal: the supervisor still receives from
\* done, and runCommand's value and the exit status are those of the
\* child's exit
C6_DeliveryFailureNotFatal ==
  (pc = "exited" /\ childStatus.kind = "exit"
     /\ \E i \in DOMAIN sent : ~sent[i].ok) =>
     /\ doneReads = 1
     /\ ret = RunError(childStatus)
     /\ OsStatus(exitCode) = childStatus.val

\* the deadline was resolved: getBuildSignalTime returned a signal time
Resolved == pc \in {"adjust", "notify", "runCommand"}

\* C7: whenever now >= terminationInstant - leadTime at the past-deadline
\* check (equality included), the resolution fails with the past-deadline
\* error, no timer is armed and no child is started
C7_PastDeadlineFails ==
  ((Resolved \/ failure = "past") /\ checkNow >= termTime - timeoutDur) =>
     /\ failure = "past"
     /\ pc = "exited"
     /\ ~timerArmed
     /\ child = "none"

\* C8: whenever now < terminationInstant - leadTime at the past-deadline
\* check, the duration the timer is armed with is positive and equals
\* terminationInstant - leadTime - now
C8_ArmedDuration ==
  (pc \in {"notify", "runCommand"} /\ checkNow < termTime - timeoutDur) =>
     /\ adjustedTimeout > 0
     /\ adjustedTimeout = termTime - timeoutDur - checkNow

\* the command line is valid apart from the override exit code
OtherArgsValid ==
  /\ ~help
  /\ nPosArgs >= 3
  /\ validSignalName(timeoutSigStr)
  /\ ParseDuration(timeoutStr).ok

\* C9: a configured override exit code is accepted, replaces the child's
\* code when the run ended on the timer path, and is not used on the done
\* and forwarded-signal paths
C9_OverrideOnDeadlinePath ==
  (timeoutExitcode # 0 /\ OtherArgsValid) =>
     /\ pc # "parseArgs" => parsed
     /\ (pc = "exited" /\ path = "timer")
           => OsStatus(exitCode) = timeoutExitcode
     /\ (pc = "exited" /\ path \in {"done", "signal"})
           => exitCode = MainExitCode(ret)

\* parseArgs has reached the check of the signal name
SignalNameChecked ==
  pc # "parseArgs" /\ timeoutExitcode = 0 /\ ~help /\ nPosArgs >= 3

\* a name is rejected exactly when it is not, letter for letter, a name of
\* the catalog
RejectsUnknownNames ==
  SignalNameChecked =>
     /\ timeoutSigStr \in DOMAIN validSignals <=> failure # "signal"
     /\ failure = "signal" => (pc = "exited" /\ exitCode = 1 /\ ~parsed)

\* C10 as claimed: every catalog name maps to a signal, two different
\* catalog names map to different signals, and any other name is rejected
C10_AllNamesDistinct ==
  /\ \A n \in DOMAIN validSignals : validSignals[n] \in 1..31
  /\ \A a, b \in DOMAIN validSignals :
        a # b => validSignals[a] # validSignals[b]
  /\ RejectsUnknownNames

\* C10 amended: every catalog name maps to a signal; two different catalog
\* names map to different signals except SIGABRT and SIGIOT, which are two
\* names of signal 6; any name that is not exactly a catalog name is
\* rejected by parseArgs
C10_CatalogLookup ==
  /\ \A n \in DOMAIN validSignals : validSignals[n] \in 1..31
  /\ \A a, b \in DOMAIN validSignals :
        (a # b /\ {a, b} # {"SIGABRT", "SIGIOT"})
           => validSignals[a] # validSignals[b]
  /\ validSignals["SIGABRT"] = validSignals["SIGIOT"]
  /\ RejectsUnknownNames

\* a name that differs from a catalog name by case only was rejected
C10_Witness ==
  /\ pc = "exited" /\ failure = "signal" /\ exitCode = 1
  /\ timeoutSigStr = "sigterm"

\* the signals the catalog names
CatalogSignals == {validSignals[n] : n \in DOMAIN validSignals}

\* C11 as claimed: a received signal that is not in the catalog is never
\* sent to the child and does not end the three-way wait (a forwarded send
\* is made by the signal case of the select, which ends the wait)
C11_NonCatalogIgnored ==
  \A i \in SentBy("forward") : sent[i].sig \in CatalogSignals

\* the signal the latest ReceiveSignal step received
LastReceived == received'[Len(received')].sig

\* C11 amended: a received signal is relayed whether or not the catalog
\* names it: every received signal except SIGCHLD is offered to the
\* select, the signal the select consumes is the one sent to the child,
\* and SIGCHLD alone is never relayed nor forwarded
C11_OnlySigchldNotRelayed ==
  /\ [](/\ \A i \in DOMAIN sigQueue : sigQueue[i] # SIGCHLD
        /\ \A i \in SentBy("forward") :
              /\ sent[i].sig # SIGCHLD
              /\ \E j \in DOMAIN received : received[j].sig = sent[i].sig)
  /\ [][received' # received =>
          sigQueue' = IF LastReceived = SIGCHLD THEN sigQueue
                      ELSE Append(sigQueue, LastReceived)]_vars
  /\ [][(path = "none" /\ path' = "signal" /\ pc' = "waitDone") =>
          /\ Len(sent') = 1
          /\ sent'[1].sig = Head(sigQueue)
          /\ sent'[1].by = "forward"]_vars

\* SIGPWR, which the catalog does not name, was forwarded to the child and
\* ended the three-way wait
C11_Witness ==
  /\ pc = "waitDone" /\ path = "signal"
  /\ sent = <<[sig |-> 30, by |-> "forward", ok |-> TRUE]>>
  /\ 30 \notin CatalogSignals

ArgFailures == {"args", "signal", "duration"}
PreflightFailures == ArgFailures \cup {"fetch", "past"}

\* C12: when argument validation fails (fewer than 3 positional arguments,
\* a signal name outside the catalog, an unparseable lead time), the
\* deadline fetch fails, or the computed signal instant is in the past,
\* the process exits with a non-zero status and the child is never started
C12_PreflightFailureExits ==
  /\ failure \in PreflightFailures =>
        /\ pc = "exited"
        /\ OsStatus(exitCode) # 0
        /\ child = "none" /\ wpc = "idle" /\ ~timerArmed
  /\ (/\ pc # "parseArgs" /\ timeoutExitcode = 0 /\ ~help
      /\ \/ nPosArgs < 3
         \/ timeoutSigStr \notin DOMAIN validSignals
         \/ ~ParseDuration(timeoutStr).ok)
        => failure \in ArgFailures
  /\ Resolved => ~(signalTime < checkNow)
  /\ (pc = "exited" /\ failure = "past") => signalTime < checkNow

\* the signal instant was in the past: exit 1 and no child
C12_Witness ==
  /\ pc = "exited" /\ failure = "past" /\ exitCode = 1
  /\ signalTime < checkNow
  /\ child = "none" /\ wpc = "idle"

\* cmd.Run failed to start the child
SpawnFailed == child = "none" /\ wpc \in {"send", "finished"}

\* C13: when the child cannot be started, no signal send is attempted,
\* runCommand returns the spawn error (received from done by the select)
\* and the process exits non-zero, whatever signal or timer is pending
C13_SpawnFailureReturnsError ==
  SpawnFailed =>
     /\ pc # "panicked"
     /\ sent = <<>>
     /\ path \in {"none", "done"}
     /\ Ended => (path = "done" /\ ret = SpawnErr)
     /\ pc = "exited" => OsStatus(exitCode) # 0

\* the status the supervisor exits with when runCommand returns the run
\* error of a child that terminated with status st
SupervisorStatusFor(st) == OsStatus(MainExitCode(RunError(st)))

\* C14: when the child was terminated by a signal (and its status is what
\* runCommand returns, the done case), the exit status of the supervisor
\* differs from every status it produces for a child that exited normally
\* with a non-zero code
C14_SignaledExitDistinct ==
  (pc = "exited" /\ path = "done" /\ childStatus.kind = "signaled") =>
     \A n \in 1..255 :
        OsStatus(exitCode) # SupervisorStatusFor([kind |-> "exit", val |-> n])

\* C15: exactly one of the three sources is consumed by the select of a
\* run (the case taken is fixed once and for all), and at most one signal
\* is sent to the child, in every interleaving
C15_OneSourceOneSignal ==
  /\ [](/\ Len(sent) <= 1
        /\ pc \in {"waitDone", "returned"} => path \in {"done", "signal", "timer"}
        /\ path = "done" => sent = <<>>
        /\ path = "signal" => SentBy("timer") = {}
        /\ path = "timer" => SentBy("forward") = {})
  /\ [][path # "none" => path' = path]_vars
  /\ [][sent # <<>> => sent' = sent]_vars

\* two signals were received and the timer expired, yet the run consumed
\* one source and sent one signal
C15_Witness ==
  /\ pc = "returned" /\ path = "signal"
  /\ Len(received) = 2 /\ received[2].sig # SIGCHLD /\ timerFired
  /\ Len(sent) = 1 /\ doneReads = 1

\* C16: a signal is sent to the child only before the main flow receives
\* from done, and on the signal and timer paths the receive from done
\* comes after the send
C16_SendBeforeFinalReceive ==
  /\ [][sent' # sent => (doneReads = 0 /\ doneReads' = 0)]_vars
  /\ [][(doneReads' # doneReads /\ path' \in {"signal", "timer"}) =>
          (sent # <<>> /\ sent' = sent)]_vars
  /\ []((doneReads >= 1 /\ path \in {"signal", "timer"}) => sent # <<>>)
  /\ []((doneReads >= 1 /\ path = "done") => sent = <<>>)

\* a forwarded signal was delivered, then done was received
C16_Witness ==
  /\ pc = "returned" /\ path = "signal" /\ doneReads = 1
  /\ Len(sent) = 1 /\ sent[1].ok /\ sent[1].by = "forward"

\* C17: done is written once by the waiter and read once by the main flow
\* on every path on which runCommand returns (never more than once on any
\* path), and the channel has room whenever the waiter is about to send,
\* so the waiter finishes as soon as cmd.Run has returned
C17_DoneOneShot ==
  /\ doneReads + Len(done) <= 1
  /\ wpc = "finished" <=> doneReads + Len(done) = 1
  /\ wpc = "send" => done = <<>>
  /\ pc = "returned" => (doneReads = 1 /\ wpc = "finished" /\ done = <<>>)
  /\ (pc = "exited" /\ path # "none") => (doneReads = 1 /\ wpc = "finished")

\* the waiter has sent and finished while the main flow, past the select,
\* has not yet received: the value waits in the channel
C17_Witness ==
  /\ pc = "waitDone" /\ wpc = "finished"
  /\ Len(done) = 1 /\ doneReads = 0

\* C19: whenever the main flow takes the signal or the timer case and
\* sends through cmd.Process, the waiter goroutine has already started the
\* child and set the handle
C19_HandleSetBeforeSend ==
  [][(path = "none" /\ path' \in {"signal", "timer"}) =>
       (cmdProcess /\ wpc \in {"wait", "send", "finished"}
          /\ pc' # "panicked")]_vars

\* C20: for every lead time parseArgs accepts, the signal instant that
\* getBuildSignalTime returns is not later than the termination instant
C20_SignalNotAfterTermination ==
  Resolved => signalTime <= termTime

\* C18: under fair scheduling, once the child has exited runCommand
\* eventually returns, on every path; and runCommand never returns while a
\* started child has not exited
C18_ReturnsIffChildExits ==
  /\ (child \in {"zombie", "reaped"}) ~> (pc \in {"returned", "exited"})
  /\ []((pc = "returned" /\ child # "none") => child = "reaped")
====
